---------------------------- MODULE Spec2Model ----------------------------
(***************************************************************************)
(* Model of the medical dashboard's client-side scripts.                   *)
(*                                                                         *)
(*   - the layout script (sidebar toggle, document click, tooltips,        *)
(*     alert auto-dismiss, navigation highlighting), validateForm, the     *)
(*     Notification utility and the beforeunload guard;                    *)
(*   - static/js/charts.js: generateDemoData (with its generateTrend       *)
(*     closure) and createBarChart.                                        *)
(*                                                                         *)
(* JavaScript strings are sequences of one-character strings, so that      *)
(* String.prototype.includes and String.prototype.replace are computed.    *)
(* Time is counted in the units of setTimeout (milliseconds).              *)
(***************************************************************************)
EXTENDS Integers, Sequences, FiniteSets, TLC

VARIABLES
    \* --- the page (document) as the server rendered it
    sidebarToggle,      \* [exists, inSidebar]: the #sidebarToggle element
    sidebar,            \* [exists, active]: the #sidebar element and its 'active' class
    tooltipTriggerList, \* the [data-bs-toggle="tooltip"] elements: [throws]
    currentPath,        \* window.location.pathname
    navLinks,           \* the '.sidebar .nav-link' elements: [href, active]
    innerWidth,         \* window.innerWidth
    \* --- the layout script's run-time state
    phase,              \* "loading" until DOMContentLoaded has been dispatched
    listeners,          \* [toggle, document]: the click listeners registered
    ev,                 \* the click event being dispatched (and the last one)
    errors,             \* the uncaught exceptions raised so far, by origin
    \* --- alerts, notifications and timers
    alertEls,           \* every element of class 'alert' ever in the document
    timers,             \* the pending setTimeout callbacks
    scheduled,          \* every setTimeout call made so far (history)
    now,                \* the clock
    loaded,             \* [at, dom]: when DOMContentLoaded ran, the alerts then in the DOM
    \* --- forms
    forms,              \* the <form> elements: [id, wasValidated, valid, inputs]
    unload,             \* the beforeunload dispatch: "none", "prompt", "left", "confirmed"
    validateResult,     \* the value the last validateForm call returned
    \* --- charts.js
    demo,               \* a call of generateDemoData
    trend,              \* a call of the generateTrend closure
    bar                 \* a call of createBarChart

layoutVars == <<sidebarToggle, sidebar, tooltipTriggerList, currentPath, navLinks,
                innerWidth, phase, listeners, ev, errors>>
alertVars == <<alertEls, timers, scheduled, now, loaded>>
formVars == <<forms, unload, validateResult>>
chartVars == <<demo, trend, bar>>
vars == <<layoutVars, alertVars, formVars, chartVars>>

---------------------------------------------------------------------------
(* Bounds of the model. *)

MaxAlertEls == 2
MaxTime == 7500
MaxInputs == 2
MaxWeeks == 7
MaxTrendWeeks == 8
RandDen == 4
MaxKeys == 3

---------------------------------------------------------------------------
(* JavaScript strings. *)

\* s.substring(k, k + p.length) === p, with k counted from 1
MatchesAt(s, p, k) ==
    /\ k + Len(p) - 1 <= Len(s)
    /\ SubSeq(s, k, k + Len(p) - 1) = p

\* String.prototype.includes
Includes(s, p) == \E k \in 1..(Len(s) + 1) : MatchesAt(s, p, k)

\* String.prototype.replace(pattern, replacement) with a string pattern:
\* only the first occurrence is replaced
ReplaceFirst(s, p, r) ==
    IF ~Includes(s, p)
    THEN s
    ELSE LET k == CHOOSE j \in 1..(Len(s) + 1) :
                      /\ MatchesAt(s, p, j)
                      /\ \A h \in 1..(j - 1) : ~MatchesAt(s, p, h)
         IN SubSeq(s, 1, k - 1) \o r \o SubSeq(s, k + Len(p), Len(s))

Min(a, b) == IF a <= b THEN a ELSE b
Max(a, b) == IF a >= b THEN a ELSE b

---------------------------------------------------------------------------
(* The layout script: sidebar toggle and the document-wide click listener. *)

Breakpoint == 768
AlertDelay == 5000
DefaultDuration == 5000

Widths == {500, 767, 768, 769}
Targets == {"toggle", "toggleChild", "sidebar", "outside"}
OnToggle(target) == target \in {"toggle", "toggleChild"}

\* The elements a click can land on in this page.
TargetsOfPage ==
    {t \in Targets : /\ (OnToggle(t) => sidebarToggle.exists)
                     /\ (t = "sidebar" => sidebar.exists)}

\* sidebar.contains(event.target)
SidebarContains(target) ==
    \/ target = "sidebar"
    \/ OnToggle(target) /\ sidebarToggle.inSidebar

NoEvent ==
    [stage |-> "idle", target |-> "none", pre |-> FALSE, docPre |-> FALSE,
     docRan |-> FALSE, width |-> 0]

\* The condition of the document click listener, after its width test.
ShouldCloseNoToggleTest(width, active, inside, isToggle) ==
    width <= Breakpoint /\ active /\ ~inside

ShouldClose(width, active, inside, isToggle) ==
    width <= Breakpoint /\ active /\ ~inside /\ ~isToggle

\* A click lands on an element; the event then runs the listeners on its path:
\* the toggle's own listener (target on or within the toggle), then the document's.
UserClick(target) ==
    /\ ev.stage = "idle"
    /\ unload = "none"
    /\ target \in TargetsOfPage
    /\ ev' = [stage |-> IF listeners.toggle /\ OnToggle(target) THEN "toggle"
                        ELSE IF listeners.document THEN "document"
                        ELSE "idle",
              target |-> target, pre |-> sidebar.active, docPre |-> sidebar.active,
              docRan |-> FALSE, width |-> innerWidth]
    /\ UNCHANGED <<sidebarToggle, sidebar, tooltipTriggerList, currentPath, navLinks,
                   innerWidth, phase, listeners, errors>>
    /\ UNCHANGED <<alertVars, formVars, chartVars>>

\* sidebarToggle's click listener: sidebar.classList.toggle('active')
ToggleClick ==
    /\ ev.stage = "toggle"
    /\ sidebar' = [sidebar EXCEPT !.active = ~sidebar.active]
    /\ ev' = [ev EXCEPT !.stage = "document"]
    /\ UNCHANGED <<sidebarToggle, tooltipTriggerList, currentPath, navLinks,
                   innerWidth, phase, listeners, errors>>
    /\ UNCHANGED <<alertVars, formVars, chartVars>>

\* The document's click listener. With no #sidebar element the variable sidebar
\* is null: the width test short-circuits above the breakpoint, and
\* sidebar.classList throws a TypeError at or below it.
DocumentClick ==
    /\ ev.stage = "document"
    /\ ev' = [ev EXCEPT !.stage = "idle", !.docPre = sidebar.active, !.docRan = TRUE]
    /\ IF innerWidth <= Breakpoint /\ ~sidebar.exists
       THEN /\ errors' = errors \cup {"click"}
            /\ UNCHANGED sidebar
       ELSE /\ sidebar' =
                 IF ShouldClose(innerWidth, sidebar.active, SidebarContains(ev.target),
                                ev.target = "toggle")
                 THEN [sidebar EXCEPT !.active = FALSE]
                 ELSE sidebar
            /\ UNCHANGED errors
    /\ UNCHANGED <<sidebarToggle, tooltipTriggerList, currentPath, navLinks,
                   innerWidth, phase, listeners>>
    /\ UNCHANGED <<alertVars, formVars, chartVars>>

\* The user resizes the window.
Resize ==
    /\ ev.stage = "idle"
    /\ unload = "none"
    /\ \E w \in Widths : w # innerWidth /\ innerWidth' = w
    /\ UNCHANGED <<sidebarToggle, sidebar, tooltipTriggerList, currentPath, navLinks,
                   phase, listeners, ev, errors>>
    /\ UNCHANGED <<alertVars, formVars, chartVars>>

---------------------------------------------------------------------------
(* The layout script: navigation highlighting. *)

NoHref == [has |-> FALSE, s |-> <<>>]
Href(s) == [has |-> TRUE, s |-> s]

\* href && currentPath.includes(href.replace('/', '')) && href !== '#'
\* (getAttribute gives null without the attribute; null and "" are falsy)
IsCurrent(href, path) ==
    /\ href.has
    /\ href.s # <<>>
    /\ Includes(path, ReplaceFirst(href.s, <<"/">>, <<>>))
    /\ href.s # <<"#">>

\* navLinks.forEach: classList.add('active') or classList.remove('active')
MarkActive(links, path) ==
    [i \in DOMAIN links |-> [links[i] EXCEPT !.active = IsCurrent(links[i].href, path)]]

---------------------------------------------------------------------------
(* The layout script's DOMContentLoaded handler. *)

\* document.querySelectorAll('.alert:not(.alert-permanent)')
AlertsToDismiss ==
    {i \in DOMAIN alertEls : alertEls[i].inDom /\ ~alertEls[i].permanent}

LayoutTimers == {[el |-> i, due |-> now + AlertDelay, by |-> "layout"] : i \in AlertsToDismiss}

\* new bootstrap.Tooltip(el) throws for some element of the list
TooltipThrows == \E i \in DOMAIN tooltipTriggerList : tooltipTriggerList[i].throws

\* The handler runs top to bottom; an exception thrown by a Tooltip constructor
\* leaves the handler, and the statements after the map never run.
DOMContentLoaded ==
    /\ phase = "loading"
    /\ ev.stage = "idle"
    /\ unload = "none"
    /\ phase' = "loaded"
    /\ listeners' = [toggle |-> sidebarToggle.exists /\ sidebar.exists, document |-> TRUE]
    /\ loaded' = [at |-> now, dom |-> {i \in DOMAIN alertEls : alertEls[i].inDom}]
    /\ IF TooltipThrows
       THEN /\ errors' = errors \cup {"tooltip"}
            /\ UNCHANGED <<timers, scheduled, navLinks>>
       ELSE /\ timers' = timers \cup LayoutTimers
            /\ scheduled' = scheduled \cup LayoutTimers
            /\ navLinks' = MarkActive(navLinks, currentPath)
            /\ UNCHANGED errors
    /\ UNCHANGED <<sidebarToggle, sidebar, tooltipTriggerList, currentPath, innerWidth, ev>>
    /\ UNCHANGED <<alertEls, now>>
    /\ UNCHANGED <<formVars, chartVars>>

---------------------------------------------------------------------------
(* Alerts, the Notification utility and timers. *)

\* The severities a caller passes; 'permanent' makes the class alert-permanent.
Types == {"info", "permanent"}
ConvenienceTypes == {"success", "danger", "info", "warning"}
Durations == {-2500, 0, 2500}
TickSteps == {2500}

\* alertDiv.className = `alert alert-${type} alert-dismissible fade show position-fixed`
ShownAlert(type, duration) ==
    [origin |-> "show", type |-> type, permanent |-> (type = "permanent"),
     duration |-> duration, createdAt |-> now, inDom |-> TRUE, removedBy |-> "none"]

PageAlert(permanent) ==
    [origin |-> "page", type |-> "page", permanent |-> permanent,
     duration |-> 0, createdAt |-> 0, inDom |-> TRUE, removedBy |-> "none"]

\* if (duration > 0) setTimeout(..., duration)
ShowTimers(el, duration) ==
    IF duration > 0 THEN {[el |-> el, due |-> now + duration, by |-> "show"]} ELSE {}

\* Notification.show(message, type, duration)
Show(type, duration) ==
    /\ Len(alertEls) < MaxAlertEls
    /\ ev.stage = "idle"
    /\ unload = "none"
    /\ alertEls' = Append(alertEls, ShownAlert(type, duration))
    /\ timers' = timers \cup ShowTimers(Len(alertEls) + 1, duration)
    /\ scheduled' = scheduled \cup ShowTimers(Len(alertEls) + 1, duration)
    /\ UNCHANGED <<now, loaded>>
    /\ UNCHANGED <<layoutVars, formVars, chartVars>>

NotificationShow == \E type \in Types, duration \in Durations : Show(type, duration)

\* Notification.success / error / info / warning
NotificationConvenience == \E type \in ConvenienceTypes : Show(type, DefaultDuration)

\* A timer callback: new bootstrap.Alert(el).close() takes the element out of the
\* document; on an element already removed it changes nothing.
TimerFire ==
    /\ ev.stage = "idle"
    /\ \E t \in timers :
          /\ t.due <= now
          /\ timers' = timers \ {t}
          /\ alertEls' =
                IF alertEls[t.el].inDom
                THEN [alertEls EXCEPT ![t.el].inDom = FALSE, ![t.el].removedBy = t.by]
                ELSE alertEls
    /\ UNCHANGED <<scheduled, now, loaded>>
    /\ UNCHANGED <<layoutVars, formVars, chartVars>>

\* The user presses a banner's close button (data-bs-dismiss="alert").
ManualDismiss ==
    /\ ev.stage = "idle"
    /\ unload = "none"
    /\ \E i \in DOMAIN alertEls :
          /\ alertEls[i].inDom
          /\ alertEls' = [alertEls EXCEPT ![i].inDom = FALSE, ![i].removedBy = "manual"]
    /\ UNCHANGED <<timers, scheduled, now, loaded>>
    /\ UNCHANGED <<layoutVars, formVars, chartVars>>

\* Time passes; a timer that is due runs before the clock moves on.
Tick ==
    /\ ev.stage = "idle"
    /\ \E d \in TickSteps :
          /\ now + d <= MaxTime
          /\ \A t \in timers : t.due >= now + d
          /\ now' = now + d
    /\ UNCHANGED <<alertEls, timers, scheduled, loaded>>
    /\ UNCHANGED <<layoutVars, formVars, chartVars>>

---------------------------------------------------------------------------
(* validateForm and the beforeunload guard. *)

FormIds == {"f1", "f2"}

\* inputs.forEach: if (input.value && !input.hasAttribute('data-initial'))
RECURSIVE InputsLoop(_, _, _)
InputsLoop(inputs, k, hasUnsavedChanges) ==
    IF k > Len(inputs)
    THEN hasUnsavedChanges
    ELSE InputsLoop(inputs, k + 1,
                    IF inputs[k].value # <<>> /\ ~inputs[k].dataInitial
                    THEN TRUE
                    ELSE hasUnsavedChanges)

\* the test on a form inside forms.forEach
FormCountsAnyForm(form) == TRUE

FormCounts(form) == form.wasValidated

\* forms.forEach: if (form.classList.contains('was-validated')) ...
RECURSIVE FormsLoop(_, _, _)
FormsLoop(fs, k, hasUnsavedChanges) ==
    IF k > Len(fs)
    THEN hasUnsavedChanges
    ELSE FormsLoop(fs, k + 1,
                   IF FormCounts(fs[k])
                   THEN InputsLoop(fs[k].inputs, 1, hasUnsavedChanges)
                   ELSE hasUnsavedChanges)

\* validateForm(formId): an absent form is reported valid; a form found gets the
\* class 'was-validated' and its checkValidity() is returned.
ValidateForm ==
    /\ unload = "none"
    /\ ev.stage = "idle"
    /\ \E formId \in FormIds :
          IF \E k \in DOMAIN forms : forms[k].id = formId
          THEN LET k == CHOOSE j \in DOMAIN forms :
                           /\ forms[j].id = formId
                           /\ \A h \in 1..(j - 1) : forms[h].id # formId
               IN /\ forms' = [forms EXCEPT ![k].wasValidated = TRUE]
                  /\ validateResult' = forms[k].valid
          ELSE /\ validateResult' = TRUE
               /\ UNCHANGED forms
    /\ UNCHANGED unload
    /\ UNCHANGED <<layoutVars, alertVars, chartVars>>

\* The user types into (or clears) a field.
EditInput ==
    /\ unload = "none"
    /\ ev.stage = "idle"
    /\ \E k \in DOMAIN forms : \E j \in DOMAIN forms[k].inputs :
          \E v \in {<<>>, <<"x">>} :
             /\ v # forms[k].inputs[j].value
             /\ forms' = [forms EXCEPT ![k].inputs[j].value = v]
    /\ UNCHANGED <<unload, validateResult>>
    /\ UNCHANGED <<layoutVars, alertVars, chartVars>>

\* The window's beforeunload listener: with unsaved changes it calls
\* preventDefault and sets returnValue (the browser prompts), else the page unloads.
BeforeUnload ==
    /\ unload = "none"
    /\ ev.stage = "idle"
    /\ unload' = IF FormsLoop(forms, 1, FALSE) THEN "prompt" ELSE "left"
    /\ UNCHANGED <<forms, validateResult>>
    /\ UNCHANGED <<layoutVars, alertVars, chartVars>>

\* The user answers the browser's prompt: stay on the page, or leave it.
AnswerPrompt ==
    /\ unload = "prompt"
    /\ \E u \in {"none", "confirmed"} : unload' = u
    /\ UNCHANGED <<forms, validateResult>>
    /\ UNCHANGED <<layoutVars, alertVars, chartVars>>

---------------------------------------------------------------------------
(* Pages: the states a document can be in when its scripts have been evaluated. *)

SeqsUpTo(S, n) == UNION {[1..k -> S] : k \in 0..n}

TooltipLists ==
    {<<>>, <<[throws |-> FALSE]>>, <<[throws |-> FALSE], [throws |-> TRUE]>>}

Paths ==
    {<<"/">>, <<"/", "p">>, <<"/", "p", "/", "1">>, <<"/", "x", "p">>}

Hrefs ==
    {NoHref, Href(<<>>), Href(<<"#">>), Href(<<"/">>), Href(<<"/", "p">>),
     Href(<<"p", "/", "1">>), Href(<<"/", "q">>)}

InputStates == [value : {<<>>, <<"x">>}, dataInitial : BOOLEAN]

FormOf(k, valid, inputs) ==
    [id |-> IF k = 1 THEN "f1" ELSE "f2", wasValidated |-> FALSE, valid |-> valid,
     inputs |-> inputs]

\* Any combination of the two optional elements; the toggle may sit in the sidebar.
SidebarAny ==
    /\ sidebar \in {r \in [exists : BOOLEAN, active : BOOLEAN] : r.active => r.exists}
    /\ sidebarToggle \in {r \in [exists : BOOLEAN, inSidebar : BOOLEAN] :
                             r.inSidebar => (r.exists /\ sidebar.exists)}
    /\ innerWidth \in Widths

SidebarPlain ==
    /\ sidebar = [exists |-> TRUE, active |-> FALSE]
    /\ sidebarToggle = [exists |-> TRUE, inSidebar |-> FALSE]
    /\ innerWidth = 769

ScriptsEvaluated ==
    /\ phase = "loading"
    /\ listeners = [toggle |-> FALSE, document |-> FALSE]
    /\ ev = NoEvent
    /\ errors = {}
    /\ timers = {}
    /\ scheduled = {}
    /\ now = 0
    /\ loaded = [at |-> -1, dom |-> {}]
    /\ unload = "none"
    /\ validateResult = TRUE

NavAny ==
    /\ currentPath \in Paths
    /\ navLinks \in SeqsUpTo([href : Hrefs, active : BOOLEAN], 2)

NavPlain ==
    /\ currentPath = <<"/">>
    /\ navLinks = <<>>

AlertsAny == alertEls \in SeqsUpTo({PageAlert(FALSE), PageAlert(TRUE)}, 2)
AlertsNone == alertEls = <<>>

FormsAny ==
    \E n \in 0..2 :
       \E valid \in [1..n -> BOOLEAN], inputs \in [1..n -> SeqsUpTo(InputStates, MaxInputs)] :
          forms = [k \in 1..n |-> FormOf(k, valid[k], inputs[k])]

FormsNone == forms = <<>>

---------------------------------------------------------------------------
(* charts.js: generateDemoData and its generateTrend closure.              *)
(*                                                                         *)
(* Math.random() is a multiple k / RandDen of 1 / RandDen in [0, 1), and   *)
(* the running value is counted in units of 1 / Unit, which makes          *)
(* (Math.random() - 0.5) * volatility a whole number of units.             *)

Unit == 2 * RandDen
RandNums == {0, RandDen \div 2, RandDen - 1}

\* the arguments of the five generateTrend calls
Metrics ==
    << [name |-> "riskScores",     start |-> 25,  min |-> 10,  max |-> 40,  volatility |-> 8],
       [name |-> "bloodPressure",  start |-> 125, min |-> 110, max |-> 140, volatility |-> 5],
       [name |-> "glucoseLevels",  start |-> 95,  min |-> 70,  max |-> 120, volatility |-> 10],
       [name |-> "weightGain",     start |-> 2,   min |-> 0,   max |-> 5,   volatility |-> 1],
       [name |-> "fetalHeartRate", start |-> 140, min |-> 120, max |-> 160, volatility |-> 5] >>

Digits == <<"0", "1", "2", "3", "4", "5", "6", "7", "8", "9">>

\* the decimal text of a number >= 0, as a template literal writes it
RECURSIVE NumberToString(_)
NumberToString(n) ==
    IF n < 10 THEN <<Digits[n + 1]>> ELSE NumberToString(n \div 10) \o <<Digits[(n % 10) + 1]>>

\* `Week ${i * 4}`
LabelOfNextWeek(i) == <<"Week ">> \o NumberToString((i + 1) * 4)

LabelOf(i) == <<"Week ">> \o NumberToString(i * 4)

\* (Math.random() - 0.5) * volatility, in units, for Math.random() = k / RandDen
Change(volatility, k) == (2 * k - RandDen) * volatility

\* Math.max(min, Math.min(max, current + change)), in units
TrendStepNoLowerClamp(current, m, k) ==
    Min(m.max * Unit, current + Change(m.volatility, k))

TrendStep(current, m, k) ==
    Max(m.min * Unit, Min(m.max * Unit, current + Change(m.volatility, k)))

\* Math.round: the nearest integer, a half rounding up
Round(x) == (2 * x + Unit) \div (2 * Unit)

TrendIdle ==
    [pc |-> "idle", row |-> 1, weeks |-> 0, i |-> 0, current |-> 0, data |-> <<>>,
     clamped |-> FALSE]

\* one iteration of generateTrend's loop, Math.random() being k / RandDen
TrendLoop ==
    /\ trend.pc = "loop"
    /\ trend.i < trend.weeks
    /\ \E k \in RandNums :
          LET m == Metrics[trend.row]
              next == TrendStep(trend.current, m, k)
          IN trend' = [trend EXCEPT
                          !.current = next,
                          !.data = Append(trend.data, Round(next)),
                          !.i = trend.i + 1,
                          !.clamped = trend.clamped
                                      \/ next # trend.current + Change(m.volatility, k)]
    /\ UNCHANGED <<demo, bar>>
    /\ UNCHANGED <<layoutVars, alertVars, formVars>>

TrendReturn ==
    /\ trend.pc = "loop"
    /\ ~(trend.i < trend.weeks)
    /\ trend' = [trend EXCEPT !.pc = "done"]
    /\ UNCHANGED <<demo, bar>>
    /\ UNCHANGED <<layoutVars, alertVars, formVars>>

\* The random source of a generateDemoData call, as a stream: its n-th draw.
Streams == {"low", "high", "cycle"}
RandomOf(stream, n) ==
    CASE stream = "low" -> 0
      [] stream = "high" -> RandDen - 1
      [] OTHER -> n % RandDen

DemoIdle ==
    [pc |-> "idle", weeks |-> 0, i |-> 0, labels |-> <<>>, metric |-> 1, current |-> 0,
     data |-> <<>>, result |-> <<>>, stream |-> "low", draws |-> 0]

\* for (let i = 1; i <= weeks; i++) labels.push(`Week ${i * 4}`)
DemoLabel ==
    /\ demo.pc = "labels"
    /\ demo.i <= demo.weeks
    /\ demo' = [demo EXCEPT !.labels = Append(demo.labels, LabelOf(demo.i)),
                            !.i = demo.i + 1]
    /\ UNCHANGED <<trend, bar>>
    /\ UNCHANGED <<layoutVars, alertVars, formVars>>

\* the label loop ends; the object literal's first generateTrend call begins
DemoLabelsDone ==
    /\ demo.pc = "labels"
    /\ ~(demo.i <= demo.weeks)
    /\ demo' = [demo EXCEPT !.pc = "trend", !.metric = 1, !.i = 0,
                            !.current = Metrics[1].start * Unit, !.data = <<>>]
    /\ UNCHANGED <<trend, bar>>
    /\ UNCHANGED <<layoutVars, alertVars, formVars>>

\* one iteration of the loop of the generateTrend call in progress
DemoTrendLoop ==
    /\ demo.pc = "trend"
    /\ demo.i < demo.weeks
    /\ LET m == Metrics[demo.metric]
           next == TrendStep(demo.current, m, RandomOf(demo.stream, demo.draws))
       IN demo' = [demo EXCEPT !.current = next,
                               !.data = Append(demo.data, Round(next)),
                               !.i = demo.i + 1,
                               !.draws = demo.draws + 1]
    /\ UNCHANGED <<trend, bar>>
    /\ UNCHANGED <<layoutVars, alertVars, formVars>>

\* the generateTrend call returns its data; the next call begins, or the object
\* {labels, riskScores, ..., fetalHeartRate} is returned
DemoTrendReturn ==
    /\ demo.pc = "trend"
    /\ ~(demo.i < demo.weeks)
    /\ demo' = IF demo.metric = Len(Metrics)
               THEN [demo EXCEPT !.pc = "done", !.result = Append(demo.result, demo.data)]
               ELSE [demo EXCEPT !.result = Append(demo.result, demo.data),
                                 !.metric = demo.metric + 1, !.i = 0,
                                 !.current = Metrics[demo.metric + 1].start * Unit,
                                 !.data = <<>>]
    /\ UNCHANGED <<trend, bar>>
    /\ UNCHANGED <<layoutVars, alertVars, formVars>>

---------------------------------------------------------------------------
(* charts.js: createBarChart.                                              *)
(* An object is the sequence of its [key, val] properties in insertion     *)
(* order; an array is the sequence of its elements as written.             *)

Keys == {"labels", "foo", "0", "1"}
IntegerKeys == <<"0", "1">>
Arrays == {<<"a", "b", "c">>, <<"1", "2", "3">>}
Undefined == [def |-> FALSE, items |-> <<>>]

\* MedicalColors.primary, and a fill colour without the opacity component
Primary ==
    <<"r", "g", "b", "a", "(", "0", ",", " ", "2", "5", "5", ",", " ", "2", "0", "4",
      ",", " ", "0", ".", "8", ")">>
Colors == {Primary, <<"#", "f", "f", "f">>}

Objects ==
    {o \in SeqsUpTo([key : Keys, val : Arrays], MaxKeys) :
        \A i, j \in DOMAIN o : i # j => o[i].key # o[j].key}

HasKey(obj, key) == \E i \in DOMAIN obj : obj[i].key = key

\* Object.keys(obj): the integer-like keys in ascending order, then the other
\* keys in insertion order
ObjectKeys(obj) ==
    LET Present(k) == HasKey(obj, k)
        NotInteger(p) == \A i \in DOMAIN IntegerKeys : IntegerKeys[i] # p.key
        rest == SelectSeq(obj, NotInteger)
    IN SelectSeq(IntegerKeys, Present) \o [i \in DOMAIN rest |-> rest[i].key]

\* obj[key]
GetProp(obj, key) ==
    IF HasKey(obj, key)
    THEN [def |-> TRUE, items |-> obj[CHOOSE i \in DOMAIN obj : obj[i].key = key].val]
    ELSE Undefined

\* data[Object.keys(data)[1]]: the index is counted from 0
SeriesOfFirstKey(obj) ==
    IF Len(ObjectKeys(obj)) >= 1 THEN GetProp(obj, ObjectKeys(obj)[1]) ELSE Undefined

SeriesOf(obj) ==
    IF Len(ObjectKeys(obj)) >= 2 THEN GetProp(obj, ObjectKeys(obj)[2]) ELSE Undefined

BarIdle ==
    [pc |-> "idle", canvas |-> FALSE, data |-> <<>>, color |-> Primary,
     chart |-> [labels |-> Undefined, data |-> Undefined, backgroundColor |-> <<>>,
                borderColor |-> <<>>]]

\* createBarChart(canvasId, data, label, color): getContext on a missing canvas
\* throws; otherwise the chart is built from data.
CreateBarChart ==
    /\ bar.pc = "call"
    /\ bar' = IF ~bar.canvas
              THEN [bar EXCEPT !.pc = "error"]
              ELSE [bar EXCEPT
                       !.pc = "done",
                       !.chart = [labels |-> GetProp(bar.data, "labels"),
                                  data |-> SeriesOf(bar.data),
                                  backgroundColor |-> bar.color,
                                  borderColor |-> ReplaceFirst(bar.color, <<"0", ".", "8">>,
                                                               <<"1">>)]]
    /\ UNCHANGED <<demo, trend>>
    /\ UNCHANGED <<layoutVars, alertVars, formVars>>

ChartsIdle ==
    /\ demo = DemoIdle
    /\ trend = TrendIdle
    /\ bar = BarIdle

---------------------------------------------------------------------------
(* Specifications. Each one explores one concern of the page from every    *)
(* page of its kind; the handlers are the same in all of them.             *)

\* The sidebar, its toggle and clicks anywhere in the document.
Init ==
    /\ ScriptsEvaluated
    /\ SidebarAny
    /\ tooltipTriggerList \in TooltipLists
    /\ NavPlain
    /\ AlertsNone
    /\ FormsNone
    /\ ChartsIdle

Next ==
    \/ DOMContentLoaded
    \/ \E target \in Targets : UserClick(target)
    \/ ToggleClick
    \/ DocumentClick
    \/ Resize

Spec == Init /\ [][Next]_vars

\* Navigation highlighting at page load.
InitNav ==
    /\ ScriptsEvaluated
    /\ SidebarPlain
    /\ tooltipTriggerList \in TooltipLists
    /\ NavAny
    /\ AlertsNone
    /\ FormsNone
    /\ ChartsIdle

NextNav == DOMContentLoaded

SpecNav == InitNav /\ [][NextNav]_vars

\* Alerts of the page, notifications, timers and the clock.
InitAlerts ==
    /\ ScriptsEvaluated
    /\ SidebarPlain
    /\ tooltipTriggerList \in TooltipLists
    /\ NavPlain
    /\ AlertsAny
    /\ FormsNone
    /\ ChartsIdle

NextAlerts ==
    \/ DOMContentLoaded
    \/ NotificationShow
    \/ NotificationConvenience
    \/ TimerFire
    \/ ManualDismiss
    \/ Tick

SpecAlerts == InitAlerts /\ [][NextAlerts]_vars

\* Forms, validateForm and leaving the page.
InitForms ==
    /\ ScriptsEvaluated
    /\ SidebarPlain
    /\ tooltipTriggerList = <<>>
    /\ NavPlain
    /\ AlertsNone
    /\ FormsAny
    /\ ChartsIdle

NextForms ==
    \/ ValidateForm
    \/ EditInput
    \/ BeforeUnload
    \/ AnswerPrompt

SpecForms == InitForms /\ [][NextForms]_vars

PagePlain ==
    /\ ScriptsEvaluated
    /\ SidebarPlain
    /\ tooltipTriggerList = <<>>
    /\ NavPlain
    /\ AlertsNone
    /\ FormsNone

\* A call generateDemoData(weeks).
InitDemoData ==
    /\ PagePlain
    /\ \E weeks \in 0..MaxWeeks, stream \in Streams :
          demo = [DemoIdle EXCEPT !.pc = "labels", !.weeks = weeks, !.i = 1,
                                  !.stream = stream]
    /\ trend = TrendIdle
    /\ bar = BarIdle

NextDemoData ==
    \/ DemoLabel
    \/ DemoLabelsDone
    \/ DemoTrendLoop
    \/ DemoTrendReturn

SpecDemoData == InitDemoData /\ [][NextDemoData]_vars

\* A call of generateTrend with one row of the metric table, every draw free.
InitTrend ==
    /\ PagePlain
    /\ demo = DemoIdle
    /\ \E row \in DOMAIN Metrics, weeks \in 0..MaxTrendWeeks :
          trend = [TrendIdle EXCEPT !.pc = "loop", !.row = row, !.weeks = weeks,
                                    !.current = Metrics[row].start * Unit]
    /\ bar = BarIdle

NextTrend ==
    \/ TrendLoop
    \/ TrendReturn

SpecTrend == InitTrend /\ [][NextTrend]_vars

\* A call createBarChart(canvasId, data, label, color).
InitBarChart ==
    /\ PagePlain
    /\ demo = DemoIdle
    /\ trend = TrendIdle
    /\ \E canvas \in BOOLEAN, data \in Objects, color \in Colors :
          bar = [BarIdle EXCEPT !.pc = "call", !.canvas = canvas, !.data = data,
                                !.color = color]

NextBarChart == CreateBarChart

SpecBarChart == InitBarChart /\ [][NextBarChart]_vars

---------------------------------------------------------------------------
(* Claims about the Notification utility and the alerts (SpecAlerts). *)

AutoDismissed(el) == el.removedBy \in {"layout", "show"}

\* C1: a banner made by Notification.show with a duration that is not strictly
\* positive is never dismissed by a timer, whatever else runs on the page; one
\* with a strictly positive duration is gone once that duration has elapsed.
C1_BannerLifetime ==
    \A i \in DOMAIN alertEls :
       LET el == alertEls[i]
       IN el.origin = "show" =>
             /\ (el.duration <= 0 => ~AutoDismissed(el))
             /\ (el.duration > 0 /\ el.inDom => now <= el.createdAt + el.duration)

\* C7: once the layout script's initialization has run, every alert that was on
\* the page and is not marked permanent has a dismissal scheduled AlertDelay
\* after the load, tooltip failures included; and no alert marked permanent is
\* ever dismissed by the layout script.
C7_LayoutSchedulesDismissal ==
    /\ phase = "loaded" =>
          \A i \in loaded.dom :
             ~alertEls[i].permanent =>
                [el |-> i, due |-> loaded.at + AlertDelay, by |-> "layout"] \in scheduled
    /\ \A i \in DOMAIN alertEls :
          alertEls[i].permanent => alertEls[i].removedBy # "layout"

---------------------------------------------------------------------------
(* Claims about the sidebar (Spec). *)

\* the last click has run all of its listeners, the document's among them
ClickHandled == ev.stage = "idle" /\ ev.docRan

\* C2, as stated: the document click listener closes the sidebar exactly when the
\* width is below 768, the sidebar is open and the target is neither inside the
\* sidebar nor the toggle itself, and leaves it as it was otherwise.
C2_ClosesBelowBreakpoint ==
    ClickHandled =>
       sidebar.active =
          IF /\ ev.width < 768
             /\ ev.docPre
             /\ ~SidebarContains(ev.target)
             /\ ev.target # "toggle"
          THEN FALSE
          ELSE ev.docPre

\* C2, amended: the same with the width at most 768 (768 itself included).
C2_ClosesAtOrBelowBreakpoint ==
    ClickHandled =>
       sidebar.active =
          IF /\ ev.width <= 768
             /\ ev.docPre
             /\ ~SidebarContains(ev.target)
             /\ ev.target # "toggle"
          THEN FALSE
          ELSE ev.docPre

\* a click outside, at a width of exactly 768, has closed the open sidebar
C2_Witness ==
    /\ ClickHandled
    /\ ev.width = 768
    /\ ev.docPre
    /\ ev.target = "outside"
    /\ ~sidebar.active

\* C3: with the toggle and the sidebar both on the page, a click on or within the
\* toggle has flipped the sidebar's open state once all its listeners have run.
C3_ToggleFlips ==
    (ClickHandled /\ OnToggle(ev.target) /\ sidebar.exists /\ sidebarToggle.exists)
       => sidebar.active = ~ev.pre

\* C4: on a page without the sidebar or without the toggle, neither the
\* initialization nor any later click raises an error.
C4_NoErrorWhenAbsent ==
    (~sidebar.exists \/ ~sidebarToggle.exists) => "click" \notin errors

---------------------------------------------------------------------------
(* Claim about the navigation entries (SpecNav). *)

\* C5: after an initialization that reached the navigation entries, an entry
\* with a (non-empty) href is active exactly when the href is a substring of the
\* current path and is not "#", and an entry without href is not active.
C5_ActiveIffSubstring ==
    (phase = "loaded" /\ "tooltip" \notin errors) =>
       \A i \in DOMAIN navLinks :
          LET link == navLinks[i]
          IN /\ (link.href.has /\ link.href.s # <<>>) =>
                   (link.active <=> (/\ Includes(currentPath, link.href.s)
                                     /\ link.href.s # <<"#">>))
             /\ (~link.href.has => ~link.active)

---------------------------------------------------------------------------
(* Claim about the beforeunload guard (SpecForms). *)

\* some form marked validated holds a field with a value and no data-initial
SomeValidatedFormDirty ==
    \E k \in DOMAIN forms :
       /\ forms[k].wasValidated
       /\ \E j \in DOMAIN forms[k].inputs :
             /\ forms[k].inputs[j].value # <<>>
             /\ ~forms[k].inputs[j].dataInitial

\* C6: the unload is interrupted with the prompt if and only if some form marked
\* validated holds, itself, a field with a non-empty value and no data-initial.
C6_UnloadGuard ==
    /\ unload = "prompt" => SomeValidatedFormDirty
    /\ unload = "left" => ~SomeValidatedFormDirty

\* validateForm marked an invalid form, whose typed-in field then interrupted the
\* unload, while a form never validated holds a typed-in field too
C6_Witness ==
    /\ unload = "prompt"
    /\ Len(forms) = 2
    /\ forms[1].wasValidated /\ ~forms[1].valid
    /\ \E j \in DOMAIN forms[1].inputs :
          forms[1].inputs[j].value # <<>> /\ ~forms[1].inputs[j].dataInitial
    /\ ~forms[2].wasValidated

---------------------------------------------------------------------------
(* Claims about generateDemoData (SpecDemoData, SpecTrend). *)

\* C8: for weeks >= 1 the labels are weeks many, the one of index i (from 0) is
\* "Week " followed by 4 * (i + 1), and the five series are as long as the labels.
C8_LabelsAndLengths ==
    (demo.pc = "done" /\ demo.weeks >= 1) =>
       /\ Len(demo.labels) = demo.weeks
       /\ \A i \in 0..(demo.weeks - 1) :
             demo.labels[i + 1] = <<"Week ">> \o NumberToString(4 * (i + 1))
       /\ Len(demo.result) = 5
       /\ \A m \in DOMAIN demo.result : Len(demo.result[m]) = Len(demo.labels)

\* generateDemoData(3) has returned "Week 4", "Week 8", "Week 12"
C8_Witness ==
    /\ demo.pc = "done"
    /\ demo.weeks = 3
    /\ demo.labels = << <<"Week ", "4">>, <<"Week ", "8">>, <<"Week ", "1", "2">> >>
    /\ Len(demo.result) = 5

\* C9: every value a metric's walk emits is an integer within the metric's
\* declared range, bounds included, at every step and for every draw.
C9_ValuesInRange ==
    \A j \in DOMAIN trend.data :
       /\ trend.data[j] \in Int
       /\ Metrics[trend.row].min <= trend.data[j]
       /\ trend.data[j] <= Metrics[trend.row].max

\* a walk whose running value was cut at a bound has ended on its minimum
C9_Witness ==
    /\ trend.pc = "done"
    /\ trend.clamped
    /\ trend.data # <<>>
    /\ trend.data[Len(trend.data)] = Metrics[trend.row].min

---------------------------------------------------------------------------
(* Claim about createBarChart (SpecBarChart). *)

LabelsThenFoo ==
    << [key |-> "labels", val |-> <<"a", "b", "c">>],
       [key |-> "foo", val |-> <<"1", "2", "3">>] >>

====
